---- MODULE Spec2Model ----
(***************************************************************************)
(* Model of opine/backend/scripts/read_excel.py: load a spreadsheet, find  *)
(* the "Response ID" and "Reason for Rejection" columns by a case-folded   *)
(* substring test, turn the rows into records and print one JSON document. *)
(*                                                                         *)
(* Python strings are sequences of one-character strings, so that          *)
(* str.lower(), str.strip() and the `in` substring test are computed.      *)
(* A Python value is a record [kind, text]: kind is the Python type and    *)
(* text is what str() of the value returns.                                *)
(***************************************************************************)
EXTENDS Integers, Sequences, FiniteSets, TLC

VARIABLES argv, file, df, responseIdCol, reasonCol, data, stdout, exitCode,
          raised, pc, ci, ri

vars == <<argv, file, df, responseIdCol, reasonCol, data, stdout, exitCode,
          raised, pc, ci, ri>>

(***************************************************************************)
(* Bounds of the explored inputs.                                          *)
(***************************************************************************)
MaxCols == 3
MaxRows == 2

(***************************************************************************)
(* String literals of the script.                                          *)
(***************************************************************************)
response == <<"r", "e", "s", "p", "o", "n", "s", "e">>
id == <<"i", "d">>
reason == <<"r", "e", "a", "s", "o", "n">>
rejection == <<"r", "e", "j", "e", "c", "t", "i", "o", "n">>
nan == <<"n", "a", "n">>
NoneText == <<"N", "o", "n", "e">>
ManualRejection == <<"M", "a", "n", "u", "a", "l", " ", "R", "e", "j", "e", "c", "t", "i", "o", "n">>
ResponseIdNotFound == "Response ID column not found"
ReasonNotFound == "Reason for Rejection column not found"

(***************************************************************************)
(* Python values.                                                          *)
(***************************************************************************)
PyNone == [kind |-> "NoneType", text |-> NoneText]
PyStr(s) == [kind |-> "str", text |-> s]
PyNaN == [kind |-> "float", text |-> nan]
PyDatetime(s) == [kind |-> "datetime", text |-> s]
PyInt(s) == [kind |-> "int", text |-> s]

\* str(x)
Str(x) == x.text

\* bool(x): None, the empty string and 0 are false, every other value here is true
Truthy(x) ==
    CASE x.kind = "NoneType" -> FALSE
      [] x.kind = "str" -> Len(x.text) > 0
      [] x.kind = "int" -> x.text # <<"0">>
      [] OTHER -> TRUE

\* pd.notna(x) of a scalar cell: false for NaN and None
notna(x) == ~(x = PyNaN \/ x.kind = "NoneType")

LowerChar(c) ==
    CASE c = "A" -> "a" [] c = "B" -> "b" [] c = "C" -> "c" [] c = "D" -> "d"
      [] c = "E" -> "e" [] c = "F" -> "f" [] c = "G" -> "g" [] c = "H" -> "h"
      [] c = "I" -> "i" [] c = "J" -> "j" [] c = "K" -> "k" [] c = "L" -> "l"
      [] c = "M" -> "m" [] c = "N" -> "n" [] c = "O" -> "o" [] c = "P" -> "p"
      [] c = "Q" -> "q" [] c = "R" -> "r" [] c = "S" -> "s" [] c = "T" -> "t"
      [] c = "U" -> "u" [] c = "V" -> "v" [] c = "W" -> "w" [] c = "X" -> "x"
      [] c = "Y" -> "y" [] c = "Z" -> "z" [] OTHER -> c

\* s.lower()
lower(s) == [i \in 1..Len(s) |-> LowerChar(s[i])]

\* sub in s
In(sub, s) ==
    \E i \in 0..(Len(s) - Len(sub)) : SubSeq(s, i + 1, i + Len(sub)) = sub

IsSpace(c) == c \in {" ", "\t", "\n"}

RECURSIVE lstrip(_)
lstrip(s) == IF s # <<>> /\ IsSpace(Head(s)) THEN lstrip(Tail(s)) ELSE s

RECURSIVE rstrip(_)
rstrip(s) ==
    IF s # <<>> /\ IsSpace(s[Len(s)]) THEN rstrip(SubSeq(s, 1, Len(s) - 1)) ELSE s

\* s.strip()
strip(s) == rstrip(lstrip(s))

\* line 15-16: the test of the identifier role on one column label
MatchesResponseId(col) ==
    LET col_lower == lower(Str(col))
    IN  In(response, col_lower) /\ In(id, col_lower)

\* line 15, 18: the test of the reason role on one column label
MatchesReason(col) ==
    LET col_lower == lower(Str(col))
    IN  In(reason, col_lower) /\ In(rejection, col_lower)

\* json.dumps accepts str, int, float and None, and raises TypeError on a datetime
Serializable(x) == x.kind \in {"str", "int", "float", "NoneType"}

\* a bare `except:` would catch SystemExit as well
CatchesEverything(type) == TRUE

\* `except OSError` would catch only the failure to open the file
CatchesOSError(type) == type = "FileNotFoundError"

\* `except Exception` catches every exception class but SystemExit
IsException(type) == type # "SystemExit"

NoException == [type |-> "none", msg |-> "", code |-> 0]
Exc(type, msg) == [type |-> type, msg |-> msg, code |-> 1]
SystemExit(code) == [type |-> "SystemExit", msg |-> "", code |-> code]

\* str(sys.exc_info()) names the class of the exception being handled
Traceback(e) == e.type

(***************************************************************************)
(* Inputs: the command line and the file it names.                         *)
(***************************************************************************)
ResponseID == <<"R", "e", "s", "p", "o", "n", "s", "e", " ", "I", "D">>
ResponseID2 == <<"R", "e", "s", "p", "o", "n", "s", "e", "_", "I", "D", "_", "2">>
ResponseIdentifier == <<"R", "E", "S", "P", "O", "N", "S", "E", " ", "i", "d", "e", "n", "t", "i", "f", "i", "e", "r">>
ReasonForRejection == <<"R", "e", "a", "s", "o", "n", " ", "f", "o", "r", " ", "R", "e", "j", "e", "c", "t", "i", "o", "n">>
RejectionReason == <<"r", "e", "j", "e", "c", "t", "i", "o", "n", " ", "R", "E", "A", "S", "O", "N">>
ResponseOnly == <<"R", "e", "s", "p", "o", "n", "s", "e">>
DateText == <<"2", "0", "2", "4", "-", "0", "1", "-", "0", "1", " ", "0", "0", ":", "0", "0", ":", "0", "0">>
Blank == <<" ", " ">>
PaddedNan == <<" ", "n", "a", "n">>
PaddedR1 == <<" ", "R", "1">>
PaddedManual == <<" ", "M", "a", "n", "u", "a", "l", " ", "R", "e", "j", "e", "c", "t", "i", "o", "n", " ">>
TooSlow == <<"T", "o", "o", " ", "s", "l", "o", "w">>
Seven == <<"7">>

\* Column labels: header cells holding text, and one holding a date, which
\* the loader hands over as a datetime object.
Headers ==
    {PyStr(ResponseID), PyStr(ResponseID2), PyStr(ResponseIdentifier),
     PyStr(ReasonForRejection), PyStr(RejectionReason), PyStr(ResponseOnly),
     PyDatetime(DateText)}

\* Cell values of the identifier column: an empty cell (NaN), blank text,
\* padded "nan", "None", a padded identifier and a number.
IdCells ==
    {PyNaN, PyStr(Blank), PyStr(PaddedNan), PyStr(NoneText), PyStr(PaddedR1),
     PyInt(Seven)}

\* Cell values of the reason column: an empty cell (NaN), blank text,
\* padded "nan", "None", the padded default reason and a number.
ReasonCells ==
    {PyNaN, PyStr(Blank), PyStr(PaddedNan), PyStr(NoneText), PyStr(PaddedManual),
     PyInt(Seven)}

ProbeCells == {PyStr(PaddedR1), PyStr(TooSlow)}

\* The loader makes the labels of a frame pairwise distinct.
Labels(n) ==
    {s \in [1..n -> Headers] : \A i, j \in 1..n : i # j => s[i] # s[j]}

Sheet(columns, rows) == [columns |-> columns, rows |-> rows]

Workbook(columns, rows) == [status |-> "workbook", sheet |-> Sheet(columns, rows)]

\* Every choice of up to MaxCols labels, with no row or one row.
HeaderSheets ==
    \E n \in 0..MaxCols : \E c \in Labels(n) :
        \E rows \in {<<>>} \cup {<<r>> : r \in [1..n -> ProbeCells]} :
            file = Workbook(c, rows)

\* The two expected columns, with every choice of up to MaxRows rows.
RowSheets ==
    \E m \in 0..MaxRows : \E rows \in [1..m -> IdCells \X ReasonCells] :
        file = Workbook(<<PyStr(ResponseID), PyStr(ReasonForRejection)>>, rows)

\* Two columns of each role, with up to MaxRows rows.
WideSheets ==
    \E m \in 0..MaxRows : \E rows \in [1..m -> [1..4 -> ProbeCells]] :
        file = Workbook(<<PyStr(ResponseID), PyStr(ReasonForRejection),
                          PyStr(RejectionReason), PyStr(ResponseID2)>>, rows)

NoSheet == Sheet(<<>>, <<>>)

Script == "read_excel.py"
Path == "rejections.xlsx"

Init ==
    /\ \/ argv = <<Script>> /\ file = [status |-> "absent", sheet |-> NoSheet]
       \/ /\ argv = <<Script, Path>>
          /\ \/ file \in {[status |-> "absent", sheet |-> NoSheet],
                          [status |-> "corrupt", sheet |-> NoSheet]}
             \/ HeaderSheets
             \/ RowSheets
             \/ WideSheets
    /\ df = NoSheet
    /\ responseIdCol = PyNone
    /\ reasonCol = PyNone
    /\ data = <<>>
    /\ stdout = <<>>
    /\ exitCode = -1
    /\ raised = NoException
    /\ pc = "load"
    /\ ci = 0
    /\ ri = 0

(***************************************************************************)
(* The script, statement by statement.                                     *)
(***************************************************************************)
Raise(e) ==
    /\ raised' = e
    /\ pc' = "raised"

\* lines 7-12: excel_path = sys.argv[1]; df = pd.read_excel(excel_path)
LoadExcel ==
    /\ pc = "load"
    /\ IF Len(argv) < 2
       THEN Raise(Exc("IndexError", "list index out of range")) /\ UNCHANGED df
       ELSE IF file.status = "absent"
       THEN Raise(Exc("FileNotFoundError", "No such file or directory")) /\ UNCHANGED df
       ELSE IF file.status = "corrupt"
       THEN Raise(Exc("ValueError", "Excel file format cannot be determined")) /\ UNCHANGED df
       ELSE df' = file.sheet /\ pc' = "scan" /\ UNCHANGED raised
    /\ responseIdCol' = PyNone
    /\ reasonCol' = PyNone
    /\ UNCHANGED <<argv, file, data, stdout, exitCode, ci, ri>>

\* lines 14-19 keeping the first matching column of each role
ScanColumnFirstMatch ==
    /\ pc = "scan"
    /\ ci < Len(df.columns)
    /\ LET col == df.columns[ci + 1]
       IN  /\ responseIdCol' = IF MatchesResponseId(col) /\ ~Truthy(responseIdCol)
                               THEN col ELSE responseIdCol
           /\ reasonCol' = IF MatchesReason(col) /\ ~Truthy(reasonCol)
                           THEN col ELSE reasonCol
    /\ ci' = ci + 1
    /\ UNCHANGED <<argv, file, df, data, stdout, exitCode, raised, pc, ri>>

\* lines 14-19: one iteration of `for col in df.columns`
ScanColumn ==
    /\ pc = "scan"
    /\ ci < Len(df.columns)
    /\ LET col == df.columns[ci + 1]
       IN  /\ responseIdCol' = IF MatchesResponseId(col) THEN col ELSE responseIdCol
           /\ reasonCol' = IF MatchesReason(col) THEN col ELSE reasonCol
    /\ ci' = ci + 1
    /\ UNCHANGED <<argv, file, df, data, stdout, exitCode, raised, pc, ri>>

\* lines 22-23 and 26-27: print(json.dumps({'error': ..., 'columns': list(df.columns)}))
\* and sys.exit(1); json.dumps raises before anything is printed
ColumnNotFound(error) ==
    IF \A i \in 1..Len(df.columns) : Serializable(df.columns[i])
    THEN /\ stdout' = Append(stdout, [error |-> error, columns |-> df.columns])
         /\ Raise(SystemExit(1))
    ELSE /\ Raise(Exc("TypeError", "Object of type datetime is not JSON serializable"))
         /\ UNCHANGED stdout

\* lines 21-23
CheckResponseIdCol ==
    /\ pc = "scan"
    /\ ci = Len(df.columns)
    /\ IF ~Truthy(responseIdCol)
       THEN ColumnNotFound(ResponseIdNotFound)
       ELSE pc' = "check_reason" /\ UNCHANGED <<stdout, raised>>
    /\ UNCHANGED <<argv, file, df, responseIdCol, reasonCol, data, exitCode, ci, ri>>

\* lines 25-30
CheckReasonCol ==
    /\ pc = "check_reason"
    /\ IF ~Truthy(reasonCol)
       THEN ColumnNotFound(ReasonNotFound) /\ UNCHANGED data
       ELSE pc' = "rows" /\ data' = <<>> /\ UNCHANGED <<stdout, raised>>
    /\ UNCHANGED <<argv, file, df, responseIdCol, reasonCol, exitCode, ci, ri>>

\* row[col]: the cell of the row under the label col
Cell(row, col) == row[CHOOSE j \in 1..Len(df.columns) : df.columns[j] = col]

\* lines 32, 33: str(x).strip() if pd.notna(x) else None
CellText(x) == IF notna(x) THEN PyStr(strip(Str(x))) ELSE PyNone

\* line 35 without the test against 'None'
KeepRowUnlessNan(responseId) == Truthy(responseId) /\ responseId # PyStr(nan)

\* line 35: responseId and responseId != 'nan' and responseId != 'None'
KeepRow(responseId) ==
    Truthy(responseId) /\ responseId # PyStr(nan) /\ responseId # PyStr(NoneText)

\* line 38 with the condition of line 35
ReasonOrDefaultLikeId(r) ==
    IF Truthy(r) /\ r # PyStr(nan) /\ r # PyStr(NoneText) THEN r ELSE PyStr(ManualRejection)

\* line 38: reason if reason and reason != 'nan' else 'Manual Rejection'
ReasonOrDefault(r) ==
    IF Truthy(r) /\ r # PyStr(nan) THEN r ELSE PyStr(ManualRejection)

\* lines 36-39: the record appended to data
Record(responseId, r) ==
    [responseId |-> Str(responseId), reason |-> Str(ReasonOrDefault(r))]

\* lines 31-39 skipping a row whose identifier is already in data
ProcessRowOncePerId ==
    /\ pc = "rows"
    /\ ri < Len(df.rows)
    /\ LET row == df.rows[ri + 1]
           responseId == CellText(Cell(row, responseIdCol))
           r == CellText(Cell(row, reasonCol))
       IN  data' = IF /\ KeepRow(responseId)
                      /\ \A i \in 1..Len(data) : data[i].responseId # Str(responseId)
                   THEN Append(data, Record(responseId, r))
                   ELSE data
    /\ ri' = ri + 1
    /\ UNCHANGED <<argv, file, df, responseIdCol, reasonCol, stdout, exitCode, raised, pc, ci>>

\* lines 31-39: one iteration of `for idx, row in df.iterrows()`
ProcessRow ==
    /\ pc = "rows"
    /\ ri < Len(df.rows)
    /\ LET row == df.rows[ri + 1]
           responseId == CellText(Cell(row, responseIdCol))
           r == CellText(Cell(row, reasonCol))
       IN  data' = IF KeepRow(responseId)
                   THEN Append(data, Record(responseId, r))
                   ELSE data
    /\ ri' = ri + 1
    /\ UNCHANGED <<argv, file, df, responseIdCol, reasonCol, stdout, exitCode, raised, pc, ci>>

\* line 41 counting the rows of the frame instead of the records
SuccessPayloadRowCount(d) == [success |-> TRUE, data |-> d, total |-> Len(df.rows)]

\* line 41: the success payload
SuccessPayload(d) == [success |-> TRUE, data |-> d, total |-> Len(d)]

\* line 41, then the end of the script: the interpreter exits with code 0
PrintSuccess ==
    /\ pc = "rows"
    /\ ri = Len(df.rows)
    /\ stdout' = Append(stdout, SuccessPayload(data))
    /\ exitCode' = 0
    /\ pc' = "done"
    /\ UNCHANGED <<argv, file, df, responseIdCol, reasonCol, data, raised, ci, ri>>

\* lines 42-44: except Exception as e: print the error payload; sys.exit(1)
ExceptException ==
    /\ pc = "raised"
    /\ IsException(raised.type)
    /\ stdout' = Append(stdout, [error |-> raised.msg, traceback |-> Traceback(raised)])
    /\ raised' = SystemExit(1)
    /\ pc' = "exit"
    /\ UNCHANGED <<argv, file, df, responseIdCol, reasonCol, data, exitCode, ci, ri>>

\* line 42: an exception that `except Exception` does not match leaves the try
Propagate ==
    /\ pc = "raised"
    /\ ~IsException(raised.type)
    /\ pc' = "exit"
    /\ UNCHANGED <<argv, file, df, responseIdCol, reasonCol, data, stdout, exitCode, raised, ci, ri>>

\* SystemExit reaches the interpreter, which exits with its code
Exit ==
    /\ pc = "exit"
    /\ exitCode' = raised.code
    /\ pc' = "done"
    /\ UNCHANGED <<argv, file, df, responseIdCol, reasonCol, data, stdout, raised, ci, ri>>

Next ==
    \/ LoadExcel
    \/ ScanColumn
    \/ CheckResponseIdCol
    \/ CheckReasonCol
    \/ ProcessRow
    \/ PrintSuccess
    \/ ExceptException
    \/ Propagate
    \/ Exit

Spec == Init /\ [][Next]_vars

(***************************************************************************)
(* The run as seen from outside: the input it was given and what it        *)
(* printed.                                                                *)
(***************************************************************************)
Loaded == Len(argv) > 1 /\ file.status = "workbook"
Columns == file.sheet.columns
Rows == file.sheet.rows
Done == pc = "done"

\* the case-folded name of the column contains both a and b
Names(col, a, b) == In(a, lower(Str(col))) /\ In(b, lower(Str(col)))

IdColumns == {j \in 1..Len(Columns) : Names(Columns[j], response, id)}
ReasonColumns == {j \in 1..Len(Columns) : Names(Columns[j], reason, rejection)}
Last(S) == CHOOSE j \in S : \A k \in S : k <= j

IdCellOf(k) == Rows[k][Last(IdColumns)]
ReasonCellOf(k) == Rows[k][Last(ReasonColumns)]

Missing(cell) == cell = PyNaN \/ cell = PyNone
Trimmed(cell) == strip(Str(cell))
AllSpace(s) == \A i \in 1..Len(s) : IsSpace(s[i])
InvalidId(cell) ==
    Missing(cell) \/ AllSpace(Str(cell)) \/ Trimmed(cell) = nan \/ Trimmed(cell) = NoneText

IsSuccessPayload(p) == DOMAIN p = {"success", "data", "total"} /\ p.success = TRUE
IsColumnsPayload(p) ==
    DOMAIN p = {"error", "columns"} /\ p.error \in {ResponseIdNotFound, ReasonNotFound}
IsExceptionPayload(p) == DOMAIN p = {"error", "traceback"}

\* C1: a loaded spreadsheet with no column named like a response id ends with
\* the single payload {error: "Response ID column not found", columns: all
\* column names in order} and exit code 1.
C1_ResponseIdColumnNotFound ==
    (Done /\ Loaded /\ IdColumns = {}) =>
        /\ stdout = <<[error |-> ResponseIdNotFound, columns |-> Columns]>>
        /\ exitCode = 1

\* C2: a loaded spreadsheet with a response id column and no column named like
\* a rejection reason ends with the single payload {error: "Reason for
\* Rejection column not found", columns: all column names} and exit code 1.
C2_ReasonColumnNotFound ==
    (Done /\ Loaded /\ IdColumns # {} /\ ReasonColumns = {}) =>
        /\ stdout = <<[error |-> ReasonNotFound, columns |-> Columns]>>
        /\ exitCode = 1

\* C3: a run prints at most one payload, a finished run has printed exactly
\* one, which is a full success payload or a full error payload; the exit code
\* is 0 exactly for the success payload and 1 for an error payload; a run that
\* has printed its payload and has not finished can take its next step.
C3_OnePayload ==
    /\ Len(stdout) <= 1
    /\ \A i \in 1..Len(stdout) :
           \/ IsSuccessPayload(stdout[i])
           \/ IsColumnsPayload(stdout[i])
           \/ IsExceptionPayload(stdout[i])
    /\ Done =>
           /\ Len(stdout) = 1
           /\ exitCode \in {0, 1}
           /\ exitCode = 0 <=> IsSuccessPayload(stdout[1])
           /\ exitCode = 1 <=> (IsColumnsPayload(stdout[1]) \/ IsExceptionPayload(stdout[1]))
    /\ ~Done => exitCode = -1
    /\ (Len(stdout) = 1 /\ ~Done) => ENABLED Next

\* a finished run whose column-not-found payload is the only payload
C3_Witness ==
    /\ Done
    /\ Len(stdout) = 1
    /\ IsColumnsPayload(stdout[1])
    /\ exitCode = 1

RecordValid(rec) ==
    /\ rec.responseId # <<>>
    /\ strip(rec.responseId) = rec.responseId
    /\ rec.responseId # nan
    /\ rec.responseId # NoneText

\* C4: reading a row whose identifier cell is missing, blank, or trims to
\* "nan" or "None" adds no record, and every record in data and in a printed
\* success payload has a non-empty trimmed responseId other than "nan" and
\* "None".
C4_InvalidIdSkipped ==
    /\ [](/\ \A i \in 1..Len(data) : RecordValid(data[i])
          /\ \A i \in 1..Len(stdout) : IsSuccessPayload(stdout[i]) =>
                 \A j \in 1..Len(stdout[i].data) : RecordValid(stdout[i].data[j]))
    /\ [][(pc = "rows" /\ ri' = ri + 1 /\ InvalidId(IdCellOf(ri'))) => data' = data]_vars

\* two rows read: the first has an identifier that trims to "None" and gave no
\* record, the second gave one
C4_Witness ==
    /\ pc = "rows"
    /\ ri = 2
    /\ Trimmed(IdCellOf(1)) = NoneText
    /\ ~InvalidId(IdCellOf(2))
    /\ Len(data) = 1

\* C5 as stated: the record of a row has reason "Manual Rejection" exactly
\* when the reason cell is missing, empty after trimming, trims to "nan", or is
\* itself the text "Manual Rejection"; otherwise the reason is the trimmed text
\* of the cell.
C5_ReasonAsStated ==
    [][(pc = "rows" /\ ri' = ri + 1 /\ Len(data') = Len(data) + 1) =>
        LET cell == ReasonCellOf(ri')
            rec == data'[Len(data')]
            defaulted == \/ Missing(cell)
                         \/ Trimmed(cell) = <<>>
                         \/ Trimmed(cell) = nan
                         \/ Str(cell) = ManualRejection
        IN  /\ rec.reason = ManualRejection <=> defaulted
            /\ ~defaulted => rec.reason = Trimmed(cell)]_vars

\* C5 amended: the record of a row has reason "Manual Rejection" exactly when
\* the reason cell is missing, empty after trimming, or trims to "nan" or to
\* "Manual Rejection"; otherwise, the text "None" included, the reason is the
\* trimmed text of the cell.
C5_ReasonOrDefault ==
    [][(pc = "rows" /\ ri' = ri + 1 /\ Len(data') = Len(data) + 1) =>
        LET cell == ReasonCellOf(ri')
            rec == data'[Len(data')]
            defaulted == \/ Missing(cell)
                         \/ Trimmed(cell) = <<>>
                         \/ Trimmed(cell) = nan
                         \/ Trimmed(cell) = ManualRejection
        IN  /\ rec.reason = ManualRejection <=> defaulted
            /\ ~defaulted => rec.reason = Trimmed(cell)]_vars

\* two records: the reason "None" was kept, the reason of an empty cell became
\* "Manual Rejection"
C5_Witness ==
    /\ pc = "rows"
    /\ ri = 2
    /\ Len(data) = 2
    /\ ReasonCellOf(1) = PyStr(NoneText)
    /\ data[1].reason = NoneText
    /\ ReasonCellOf(2) = PyNaN
    /\ data[2].reason = ManualRejection

ValidRows == {k \in 1..Len(Rows) : ~InvalidId(IdCellOf(k))}

\* C6: in a printed success payload total is the length of data, which is the
\* number of rows with a valid identifier, between 0 and the number of rows.
C6_TotalIsLength ==
    \A i \in 1..Len(stdout) : IsSuccessPayload(stdout[i]) =>
        /\ stdout[i].total = Len(stdout[i].data)
        /\ Len(stdout[i].data) = Cardinality(ValidRows)
        /\ 0 <= stdout[i].total
        /\ stdout[i].total <= Len(Rows)
        /\ Rows = <<>> => stdout[i].data = <<>> /\ stdout[i].total = 0

\* a success payload of one record for a spreadsheet of two rows
C6_Witness ==
    /\ Done
    /\ Len(stdout) = 1
    /\ IsSuccessPayload(stdout[1])
    /\ stdout[1].total = 1
    /\ Len(Rows) = 2

\* the columns among the first n that the role (a, b) names
Named(n, a, b) == {j \in 1..n : Names(Columns[j], a, b)}
Resolved(n, a, b) ==
    IF Named(n, a, b) = {} THEN PyNone ELSE Columns[Last(Named(n, a, b))]

\* C7: while the columns are scanned and checked, each role holds the last of
\* the scanned columns whose case-folded name contains both substrings, and
\* None when there is none; a column "Response_ID_2" or "RESPONSE identifier"
\* that was just scanned is the identifier column; once the scan is over the
\* two roles never change; and the cells a row's record is made of are those of
\* the last matching columns.
C7_LastMatchWins ==
    /\ []((Loaded /\ pc \in {"scan", "check_reason"}) =>
              /\ responseIdCol = Resolved(ci, response, id)
              /\ reasonCol = Resolved(ci, reason, rejection)
              /\ pc # "scan" => ci = Len(Columns)
              /\ (ci > 0 /\ Columns[ci] \in {PyStr(ResponseID2), PyStr(ResponseIdentifier)})
                     => responseIdCol = Columns[ci])
    /\ [][pc \notin {"load", "scan"} =>
              UNCHANGED <<responseIdCol, reasonCol, ci>>]_vars
    /\ [][(pc = "rows" /\ ri' = ri + 1) =>
            /\ data' = data <=> InvalidId(IdCellOf(ri'))
            /\ data' # data =>
                   /\ data'[Len(data')].responseId = Trimmed(IdCellOf(ri'))
                   /\ data'[Len(data')].reason \in
                          {Trimmed(ReasonCellOf(ri')), ManualRejection}]_vars

\* two columns match each role, a row differs between them, and its record
\* holds the cells of the last ones
C7_Witness ==
    /\ pc = "rows"
    /\ ri = 1
    /\ Cardinality(IdColumns) = 2
    /\ Cardinality(ReasonColumns) = 2
    /\ \E j \in IdColumns : Rows[1][j] # IdCellOf(1)
    /\ \E j \in ReasonColumns : Rows[1][j] # ReasonCellOf(1)
    /\ data = <<[responseId |-> Trimmed(IdCellOf(1)), reason |-> Trimmed(ReasonCellOf(1))]>>

\* the exception the input makes the script run into, "none" when there is none
Failure ==
    IF Len(argv) < 2 THEN "IndexError"
    ELSE IF file.status = "absent" THEN "FileNotFoundError"
    ELSE IF file.status = "corrupt" THEN "ValueError"
    ELSE IF /\ IdColumns = {} \/ ReasonColumns = {}
            /\ \E j \in 1..Len(Columns) : Columns[j].kind = "datetime"
         THEN "TypeError"
    ELSE "none"

\* C8: when the input makes the script fail (no argument, no file, unreadable
\* file, a payload that cannot be serialized) the only payload printed is
\* {error: message of the exception, traceback: its description}, and the run
\* ends with exit code 1.
C8_FailureReported ==
    /\ [](Failure # "none" =>
              /\ \A i \in 1..Len(stdout) : IsExceptionPayload(stdout[i])
              /\ Done =>
                     /\ Len(stdout) = 1
                     /\ stdout[1].traceback = Failure
                     /\ exitCode = 1)
    /\ [][(pc = "raised" /\ raised.type # "SystemExit") =>
              stdout' = <<[error |-> raised.msg, traceback |-> raised.type]>>]_vars

\* a run that could not serialize the column names has reported that failure
C8_Witness ==
    /\ Done
    /\ Failure = "TypeError"
    /\ Len(stdout) = 1
    /\ IsExceptionPayload(stdout[1])
    /\ stdout[1].traceback = "TypeError"
    /\ exitCode = 1

ExpectedReason(cell) ==
    IF Missing(cell) \/ Trimmed(cell) = <<>> \/ Trimmed(cell) = nan
    THEN ManualRejection
    ELSE Trimmed(cell)

\* the records of the rows with a valid identifier among the first k, in row order
RECURSIVE ValidRecords(_)
ValidRecords(k) ==
    IF k = 0 THEN <<>>
    ELSE IF InvalidId(IdCellOf(k)) THEN ValidRecords(k - 1)
    ELSE Append(ValidRecords(k - 1),
                [responseId |-> Trimmed(IdCellOf(k)),
                 reason |-> ExpectedReason(ReasonCellOf(k))])

\* C9: data is the sequence of the records of the rows read so far that have a
\* valid identifier, one record per such row, in row order, equal identifiers
\* kept apart; the success payload holds that sequence for all rows.
C9_DataIsValidRowsInOrder ==
    /\ pc = "rows" => data = ValidRecords(ri)
    /\ \A i \in 1..Len(stdout) : IsSuccessPayload(stdout[i]) =>
           stdout[i].data = ValidRecords(Len(Rows))

\* a success payload with two records of the same identifier, in row order
C9_Witness ==
    /\ Done
    /\ Len(stdout) = 1
    /\ IsSuccessPayload(stdout[1])
    /\ Len(stdout[1].data) = 2
    /\ stdout[1].data[1].responseId = stdout[1].data[2].responseId
    /\ stdout[1].data[1].reason # stdout[1].data[2].reason

\* C10: a loaded spreadsheet that matches neither role is reported as
\* "Response ID column not found"; "Reason for Rejection column not found" is
\* only reported when an identifier column exists; no row is read unless both
\* roles are resolved.
C10_ChecksOrdered ==
    /\ (Done /\ Loaded /\ IdColumns = {} /\ ReasonColumns = {}) =>
           /\ Len(stdout) = 1
           /\ stdout[1].error = ResponseIdNotFound
    /\ \A i \in 1..Len(stdout) :
           (~IsSuccessPayload(stdout[i]) /\ stdout[i].error = ReasonNotFound) =>
               IdColumns # {}
    /\ ri > 0 => (IdColumns # {} /\ ReasonColumns # {} /\ pc \in {"rows", "done"})

====
